---- MODULE Spec2Model ----
(***************************************************************************)
(* Ledger of the cartera application: transactions (Transaccion) with      *)
(* their line items, payments (Abono) and the paid flag, as the views of   *)
(* cartera/views.py drive the models of cartera/models.py through the      *)
(* forms of cartera/forms.py.                                              *)
(*                                                                         *)
(* Optional values (None in Python) are sequences of length 0 or 1:        *)
(* None is << >> and a present value x is << x >>.                         *)
(* The rows of the Abono table are a bag of (transaccion, valor): two rows  *)
(* differ otherwise only in their primary key, which no code path reads.   *)
(* Money is in whole currency units; the input sets keep every discounted  *)
(* line total a whole number, so the integer arithmetic is exact.          *)
(***************************************************************************)
EXTENDS Integers, Sequences, FiniteSets, Bags, TLC

\* ---- bounds of the model ------------------------------------------------
\* rows of the Transaccion table in the single-transaction specifications;
\* the specification of several transactions has one more
MaxTx == 1
\* rows of the Abono table
MaxAbonos == 2
\* distinct readings of the clock
MaxClock == 1
\* worker processes serving requests at the same time
NProcs == 2

\* ---- program constants --------------------------------------------------
\* epsilon = 1e-6 = EpsNum / EpsDen
EpsNum == 1
EpsDen == 1000000

None == << >>
Some(x) == << x >>
IsNone(o) == o = << >>
OrZero(o) == IF o = << >> THEN 0 ELSE o[1]

TxIds == 1..MaxTx
TxIdsVarias == 1..(MaxTx + 1)
Times == 1..MaxClock
Procs == 1..NProcs

NATURA == "NAT"
ACCESORIOS == "ACC"
OTROS == "OTR"

\* Abono.METODOS
EFECTIVO == "EFE"
TRANSFER == "TRF"
OTRO == "OTR"
METODOS == {EFECTIVO, TRANSFER, OTRO}

VARIABLES
    clientes,       \* pk -> Cliente row
    transacciones,  \* pk -> Transaccion row (with its item rows)
    abonos,         \* bag of Abono rows
    last,           \* the last request served and its outcome
    req             \* payment requests in flight (one per worker process)

vars == << clientes, transacciones, abonos, last, req >>

\* x > epsilon, for an amount x
GtEps(x) == x * EpsDen > EpsNum
\* x + epsilon >= y
PlusEpsGeq(x, y) == x * EpsDen + EpsNum >= y * EpsDen

Max(a, b) == IF a >= b THEN a ELSE b

\* ---- line items ----------------------------------------------------------
\* estado_cuenta: base of one item, and its discount base * pct
base_linea(it) == it.precio_unitario * it.cantidad
desc_linea(it) == (base_linea(it) * OrZero(it.descuento)) \div 100

\* mutant: the discount taken as a fraction, not divided by 100
line_total_sin_escala(it) ==
    (it.precio_unitario * it.cantidad) * (1 - OrZero(it.descuento))

\* base * (1 - descuento/100) of one item
line_total(it) ==
    LET base == it.precio_unitario * it.cantidad
        desc == OrZero(it.descuento)
    IN  (base * (100 - desc)) \div 100

RECURSIVE items_total(_)
items_total(its) ==
    IF its = << >> THEN 0 ELSE line_total(Head(its)) + items_total(Tail(its))

\* ---- Transaccion ---------------------------------------------------------
\* the payable total of a transaction row. models.py keeps it in the field
\* valor, which no form or view under cartera/ writes; the views read it as
\* the total of the line items (valor_a_pagar), and so it is taken here.
valor(tx) == items_total(tx.items)

Abono(t, v) == [transaccion |-> t, valor |-> v]

\* mutant: the payments of every transaction, the foreign key not filtered
AbonosDe_todos(ab, t) == BagToSet(ab)

\* the distinct rows of the payments of transaction t
AbonosDe(ab, t) == { a \in BagToSet(ab) : a.transaccion = t }

RECURSIVE SumValores(_, _)
SumValores(ab, S) ==
    IF S = {} THEN 0
    ELSE LET a == CHOOSE x \in S : TRUE
         IN  a.valor * CopiesIn(a, ab) + SumValores(ab, S \ {a})

RECURSIVE CuentaAbonos(_, _)
CuentaAbonos(ab, S) ==
    IF S = {} THEN 0
    ELSE LET a == CHOOSE x \in S : TRUE IN CopiesIn(a, ab) + CuentaAbonos(ab, S \ {a})

\* mutant: Count("valor") where the code has Sum("valor")
total_abonado_cuenta(ab, t) == CuentaAbonos(ab, AbonosDe(ab, t))

\* Coalesce(Sum("valor"), 0) over the transaction's payments
total_abonado_in(ab, t) == SumValores(ab, AbonosDe(ab, t))

total_abonado(t) == total_abonado_in(abonos, t)

saldo_actual_in(tx, t, ab) == Max(valor(tx) - total_abonado_in(ab, t), 0)

saldo_actual(t) == saldo_actual_in(transacciones[t], t, abonos)

marcar_pagado_ahora(tx, now) ==
    [tx EXCEPT !.pagado = TRUE,
               !.fecha_pago = IF IsNone(tx.fecha_pago) THEN Some(now) ELSE tx.fecha_pago]

\* mutant: total_abonado > valor where the code has total_abonado + 1e-6 >= valor
recomputar_pagado_estricto(tx, t, ab, now) ==
    IF total_abonado_in(ab, t) > valor(tx)
    THEN IF ~tx.pagado THEN marcar_pagado_ahora(tx, now) ELSE tx
    ELSE [tx EXCEPT !.pagado = FALSE, !.fecha_pago = None]

\* mutant: the paid flag is sticky, the else branch missing
recomputar_pagado_sticky(tx, t, ab, now) ==
    IF PlusEpsGeq(total_abonado_in(ab, t), valor(tx))
    THEN IF ~tx.pagado THEN marcar_pagado_ahora(tx, now) ELSE tx
    ELSE tx

\* mutant: the paid date stamped again at every call that finds the total covered
recomputar_pagado_resella(tx, t, ab, now) ==
    IF PlusEpsGeq(total_abonado_in(ab, t), valor(tx))
    THEN [tx EXCEPT !.pagado = TRUE, !.fecha_pago = Some(now)]
    ELSE [tx EXCEPT !.pagado = FALSE, !.fecha_pago = None]

\* the row after recomputar_pagado: tx is the in-memory instance, ab the
\* payments in the database at the moment of the call
recomputar_pagado(tx, t, ab, now) ==
    IF PlusEpsGeq(total_abonado_in(ab, t), valor(tx))
    THEN IF ~tx.pagado THEN marcar_pagado_ahora(tx, now) ELSE tx
    ELSE [tx EXCEPT !.pagado = FALSE, !.fecha_pago = None]

\* Model.save(update_fields=["pagado", "fecha_pago", "hora_pago"]) of the
\* in-memory instance mem over the stored row
save_pagado(row, mem) ==
    [row EXCEPT !.pagado = mem.pagado, !.fecha_pago = mem.fecha_pago]

\* ---- Cliente --------------------------------------------------------------
\* the transactions of client c (related_name transacciones)
TransaccionesDe(txs, c) == { t \in DOMAIN txs : txs[t].cliente = c }

RECURSIVE saldo_pendiente_in(_, _, _)
\* the loop of Cliente.saldo_pendiente over the rows T of
\* values_list("valor", "total_abonos")
saldo_pendiente_in(txs, ab, T) ==
    IF T = {} THEN 0
    ELSE LET t == CHOOSE x \in T : TRUE
             saldo_tx == valor(txs[t]) - total_abonado_in(ab, t)
         IN  (IF GtEps(saldo_tx) THEN saldo_tx ELSE 0)
                 + saldo_pendiente_in(txs, ab, T \ {t})

\* Cliente.saldo_pendiente of client c
saldo_pendiente(c) ==
    saldo_pendiente_in(transacciones, abonos, TransaccionesDe(transacciones, c))

\* ClienteDetailView.get_context_data: the loop that adds saldo_actual of the
\* transactions that are not pagado
RECURSIVE pendiente_total_in(_, _, _)
pendiente_total_in(txs, ab, T) ==
    IF T = {} THEN 0
    ELSE LET t == CHOOSE x \in T : TRUE IN
         (IF ~txs[t].pagado THEN saldo_actual_in(txs[t], t, ab) ELSE 0)
             + pendiente_total_in(txs, ab, T \ {t})

\* ctx["total_pendiente"] of the detail page of client c
ClienteDetail_total_pendiente(c) ==
    pendiente_total_in(transacciones, abonos, TransaccionesDe(transacciones, c))

\* DashboardView.get_context_data without filters: qs_pend is the unpaid
\* transactions, and por_cliente adds the balances above zero
RECURSIVE por_cliente_in(_, _, _, _)
por_cliente_in(txs, ab, T, c) ==
    IF T = {} THEN 0
    ELSE LET t == CHOOSE x \in T : TRUE
             s == saldo_actual_in(txs[t], t, ab)
         IN  (IF ~txs[t].pagado /\ txs[t].cliente = c /\ s > 0 THEN s ELSE 0)
                 + por_cliente_in(txs, ab, T \ {t}, c)

\* por_cliente[c] of the dashboard
Dashboard_por_cliente(c) ==
    por_cliente_in(transacciones, abonos, DOMAIN transacciones, c)

\* ---- forms ---------------------------------------------------------------
\* a campaign is the sequence of its characters
SinCampania == << >>

RECURSIVE lstrip(_)
lstrip(s) == IF s # << >> /\ Head(s) = " " THEN lstrip(Tail(s)) ELSE s

RECURSIVE rstrip(_)
rstrip(s) ==
    IF s # << >> /\ s[Len(s)] = " " THEN rstrip(SubSeq(s, 1, Len(s) - 1)) ELSE s

\* str.strip()
strip(s) == rstrip(lstrip(s))

\* Transaccion.clean, run on the instance the form builds
Transaccion_clean(tipo, campania) ==
    IF tipo = NATURA /\ campania = << >> THEN {"campania"} ELSE {}

\* a clean() that asks a campaign of every type
TransaccionForm_clean_todo_tipo(tipo, campania) ==
    IF strip(campania) = << >> THEN {"campania"} ELSE {}

\* TransaccionForm.clean: the errors of the form
TransaccionForm_clean(tipo, campania) ==
    IF tipo = NATURA /\ strip(campania) = << >> THEN {"campania"} ELSE {}

\* an item form without clean_descuento
TransaccionItemForm_errors_sin_descuento(r) ==
    (IF ~IsNone(r.precio_unitario) /\ r.precio_unitario[1] < 0 THEN {"precio_unitario"} ELSE {})
    \cup (IF ~IsNone(r.cantidad) /\ r.cantidad[1] < 0 THEN {"cantidad"} ELSE {})

\* TransaccionItemForm: min_value=0 on price and quantity, clean_descuento
TransaccionItemForm_errors(r) ==
    (IF ~IsNone(r.precio_unitario) /\ r.precio_unitario[1] < 0 THEN {"precio_unitario"} ELSE {})
    \cup (IF ~IsNone(r.cantidad) /\ r.cantidad[1] < 0 THEN {"cantidad"} ELSE {})
    \cup (IF ~IsNone(r.descuento) /\ r.descuento[1] \notin {10, 20, 30} THEN {"descuento"} ELSE {})

fila_vacia(r) ==
    r.producto = "" /\ IsNone(r.precio_unitario) /\ IsNone(r.cantidad)

\* the errors TransaccionItemBaseFormSet.clean adds to a row that is neither
\* deleted nor empty
fila_faltantes(r) ==
    (IF r.producto = "" THEN {"producto"} ELSE {})
    \cup (IF IsNone(r.precio_unitario) THEN {"precio_unitario"} ELSE {})
    \cup (IF IsNone(r.cantidad) THEN {"cantidad"} ELSE {})

fila_errors(r) ==
    IF r.DELETE THEN {}
    ELSE IF fila_vacia(r) THEN TransaccionItemForm_errors(r)
    ELSE TransaccionItemForm_errors(r) \cup fila_faltantes(r)

fila_completa(r) == ~r.DELETE /\ ~fila_vacia(r) /\ fila_errors(r) = {}

completos(rows) == Cardinality({ i \in DOMAIN rows : fila_completa(rows[i]) })

\* mutant: no complete row asked for
formset_is_valid_sin_minimo(rows) ==
    \A i \in DOMAIN rows : fila_errors(rows[i]) = {}

\* TransaccionItemBaseFormSet.clean and formset.is_valid()
formset_is_valid(rows) ==
    /\ completos(rows) > 0
    /\ \A i \in DOMAIN rows : fila_errors(rows[i]) = {}

\* _formset_marca_vacias_como_delete: rows with every field blank get DELETE
formset_marca_vacias_como_delete(rows) ==
    [ i \in DOMAIN rows |->
        IF ~rows[i].DELETE /\ fila_vacia(rows[i]) /\ IsNone(rows[i].descuento)
        THEN [rows[i] EXCEPT !.DELETE = TRUE] ELSE rows[i] ]

RECURSIVE formset_save(_)
\* the item rows of the transaction after formset.save() of a valid formset
\* that carries every row of the transaction
formset_save(rows) ==
    IF rows = << >> THEN << >>
    ELSE LET r == Head(rows) IN
         IF fila_completa(r)
         THEN << [producto |-> r.producto, precio_unitario |-> r.precio_unitario[1],
                  cantidad |-> r.cantidad[1], descuento |-> r.descuento] >>
              \o formset_save(Tail(rows))
         ELSE formset_save(Tail(rows))

\* form.is_valid() and formset.is_valid(): the formset is validated only
\* when the form is valid
forms_errors(tipo, campania, rows) ==
    LET ferrs == TransaccionForm_clean(tipo, campania)
                 \cup Transaccion_clean(tipo, strip(campania))
    IN  IF ferrs # {} THEN ferrs
        ELSE IF formset_is_valid(rows) THEN {} ELSE {"items"}

\* AbonoForm.clean: the errors of a payment of v on transaction row tx
AbonoForm_clean(tx, t, ab, v) ==
    (IF v <= 0 THEN {"non_positive"} ELSE {})
    \cup (IF GtEps(v - saldo_actual_in(tx, t, ab)) THEN {"overpayment"} ELSE {})

\* Abono.clean, run by the ModelForm on the instance; MinValueValidator(0)
Abono_clean(tx, t, ab, v) ==
    IF v < 0 THEN {"non_positive"}
    ELSE IF v <= 0 THEN {"non_positive"}
    ELSE IF GtEps(v - saldo_actual_in(tx, t, ab)) THEN {"overpayment"}
    ELSE {}

\* mutant: the overpayment check missing from the validation of a payment
AbonoForm_errors_sin_sobrepago(tx, t, ab, v) ==
    IF v <= 0 THEN {"non_positive"} ELSE {}

\* mutant: the value checked by MinValueValidator(0) alone, which lets 0 through
AbonoForm_errors_solo_validador(tx, t, ab, v) ==
    (IF v < 0 THEN {"non_positive"} ELSE {})
    \cup (IF GtEps(v - saldo_actual_in(tx, t, ab)) THEN {"overpayment"} ELSE {})

AbonoForm_errors(tx, t, ab, v) ==
    AbonoForm_clean(tx, t, ab, v) \cup Abono_clean(tx, t, ab, v)

\* the field metodo of AbonoForm: one of the choices of Abono.METODOS; notas
\* is blank=True and no method asks for it
AbonoForm_metodo_errors(metodo) ==
    IF metodo \in METODOS THEN {} ELSE {"metodo"}

\* ---- inputs --------------------------------------------------------------
Producto == "labial"
Fila(prod, p, q, d, del) ==
    [producto |-> prod, precio_unitario |-> p, cantidad |-> q, descuento |-> d, DELETE |-> del]

\* rows a request may post: complete rows, a row marked for deletion, a
\* blank row, a half-filled row
FilasIn ==
    { Fila(Producto, Some(50), Some(2), None, FALSE),
      Fila(Producto, Some(50), Some(2), None, TRUE),
      Fila(Producto, Some(50), Some(2), Some(10), FALSE),
      Fila(Producto, Some(0), Some(2), None, FALSE),
      Fila("", None, None, None, FALSE),
      Fila(Producto, None, None, None, FALSE) }

\* the formsets a request may post: no row at all, or one row
FormsetsIn == { << >> } \cup { << r >> : r \in FilasIn }

ValoresIn == {0, 40, 50, 100, 101}

\* ---- state ---------------------------------------------------------------
\* previo: the value the payment of an update had before the request;
\* valor: the value of the payment, and for the delete of a transaction the
\* sum of the payments deleted with it
\* cliente: the client of a client request; metodo, notas: the method and the
\* notes a payment request posted (the defaults of the form otherwise)
NoLast ==
    [op |-> "none", tx |-> 0, previo |-> 0, valor |-> 0, err |-> {},
     cliente |-> 0, metodo |-> TRANSFER, notas |-> ""]
MkLast(op, t, a, v, err) ==
    [op |-> op, tx |-> t, previo |-> a, valor |-> v, err |-> err,
     cliente |-> 0, metodo |-> TRANSFER, notas |-> ""]

NoMem == [pagado |-> FALSE, fecha_pago |-> None, items |-> << >>]
Idle == [pc |-> "idle", tx |-> 0, valor |-> 0, mem |-> NoMem]

Init ==
    /\ clientes = << >>
    /\ transacciones = << >>
    /\ abonos = EmptyBag
    /\ last = NoLast
    /\ req = [p \in Procs |-> Idle]

\* primary keys: the lowest key not in use stands for the next key of the table
NewPk(used, ids) == CHOOSE k \in ids \ used : \A j \in ids \ used : k <= j

Put(f, k, v) == [ x \in DOMAIN f \cup {k} |-> IF x = k THEN v ELSE f[x] ]
Drop(f, K) == [ x \in DOMAIN f \ K |-> f[x] ]

Uno(a) == SetToBag({a})
HayCupo(ab) == BagCardinality(ab) < MaxAbonos

\* ---- operations ----------------------------------------------------------
\* TransaccionForm: the cliente posted is a row of the Cliente table
\* (ModelChoiceField), then TransaccionForm.clean
TransaccionForm_errors(cliente, tipo, campania) ==
    (IF cliente \notin DOMAIN clientes THEN {"cliente"} ELSE {})
    \cup TransaccionForm_clean(tipo, campania)

\* mutant: the form saved as soon as it is valid, before the formset is checked
TransaccionCreate_guarda_antes(ids, cliente, tipo, campania, pagado, rows) ==
    LET ferrs == TransaccionForm_errors(cliente, tipo, campania)
        errs == IF ferrs # {} THEN ferrs ELSE forms_errors(tipo, campania, rows)
    IN
    /\ UNCHANGED << clientes, abonos, req >>
    /\ IF ferrs = {}
       THEN /\ DOMAIN transacciones # ids
            /\ LET t == NewPk(DOMAIN transacciones, ids) IN
               /\ transacciones' = Put(transacciones, t,
                      [cliente |-> cliente, tipo |-> tipo, campania |-> strip(campania),
                       pagado |-> pagado, fecha_pago |-> None,
                       items |-> IF errs = {} THEN formset_save(rows) ELSE << >>])
               /\ last' = MkLast("tx_create", IF errs = {} THEN t ELSE 0, 0, 0, errs)
       ELSE /\ UNCHANGED transacciones
            /\ last' = MkLast("tx_create", 0, 0, 0, errs)

\* TransaccionCreateView.post; pagado is the checkbox of TransaccionForm
TransaccionCreate(ids, cliente, tipo, campania, pagado, rows) ==
    LET ferrs == TransaccionForm_errors(cliente, tipo, campania)
        errs == IF ferrs # {} THEN ferrs ELSE forms_errors(tipo, campania, rows)
    IN
    /\ UNCHANGED << clientes, abonos, req >>
    /\ IF errs = {}
       THEN /\ DOMAIN transacciones # ids
            /\ LET t == NewPk(DOMAIN transacciones, ids) IN
               /\ transacciones' = Put(transacciones, t,
                      [cliente |-> cliente, tipo |-> tipo, campania |-> strip(campania),
                       pagado |-> pagado, fecha_pago |-> None,
                       items |-> formset_save(rows)])
               /\ last' = MkLast("tx_create", t, 0, 0, {})
       ELSE /\ UNCHANGED transacciones
            /\ last' = MkLast("tx_create", 0, 0, 0, errs)

\* TransaccionUpdateView.post / forms_valid / forms_invalid
TransaccionUpdate_post(t, tipo, campania, pagado, posted) ==
    LET rows == formset_marca_vacias_como_delete(posted)
        errs == forms_errors(tipo, campania, rows)
    IN
    IF errs = {}
    THEN /\ transacciones' = [transacciones EXCEPT
                ![t].tipo = tipo, ![t].campania = strip(campania),
                ![t].pagado = pagado, ![t].items = formset_save(rows)]
         /\ last' = MkLast("tx_update", t, 0, 0, {})
    ELSE /\ UNCHANGED transacciones
         /\ last' = MkLast("tx_update", t, 0, 0, errs)

\* a dispatch that lets the request of a paid transaction through
TransaccionUpdate_sin_guardia(t, tipo, campania, pagado, posted) ==
    /\ t \in DOMAIN transacciones
    /\ UNCHANGED << clientes, abonos, req >>
    /\ TransaccionUpdate_post(t, tipo, campania, pagado, posted)

\* TransaccionUpdateView.dispatch, then post
TransaccionUpdate(t, tipo, campania, pagado, posted) ==
    /\ t \in DOMAIN transacciones
    /\ UNCHANGED << clientes, abonos, req >>
    /\ IF transacciones[t].pagado
       THEN /\ UNCHANGED transacciones
            /\ last' = MkLast("tx_update", t, 0, 0, {"pagada"})
       ELSE TransaccionUpdate_post(t, tipo, campania, pagado, posted)

\* transaccion_marcar_pagado: the view sets pagado and saves it (with
\* pagado_en, a field models.py does not have); it does not call
\* marcar_pagado_ahora, so fecha_pago and hora_pago stay as they were
TransaccionMarcarPagado(t) ==
    /\ t \in DOMAIN transacciones
    /\ transacciones' = [transacciones EXCEPT ![t].pagado = TRUE]
    /\ last' = MkLast("tx_pagada", t, 0, 0, {})
    /\ UNCHANGED << clientes, abonos, req >>

\* mutant: the row deleted and its payments left behind
TransaccionDelete_sin_cascada(t) ==
    /\ t \in DOMAIN transacciones
    /\ transacciones' = Drop(transacciones, {t})
    /\ last' = MkLast("tx_delete", t, 0, total_abonado(t), {})
    /\ UNCHANGED << clientes, abonos, req >>

\* TransaccionDeleteView: the row, and by cascade its items and payments
TransaccionDelete(t) ==
    /\ t \in DOMAIN transacciones
    /\ transacciones' = Drop(transacciones, {t})
    /\ abonos' = Drop(abonos, AbonosDe(abonos, t))
    /\ last' = MkLast("tx_delete", t, 0, total_abonado(t), {})
    /\ UNCHANGED << clientes, req >>

\* Abono.save: the row as written (ab), then recomputar_pagado
Abono_save(ab, t, now) ==
    /\ abonos' = ab
    /\ transacciones' = [transacciones EXCEPT
           ![t] = recomputar_pagado(transacciones[t], t, ab, now)]

\* AbonoCreateView.post: the fields of the form, then AbonoForm.clean and
\* Abono.clean; metodo and notas are stored with the row and read by no
\* computation of the ledger
AbonoCreate(t, v, metodo, notas, now) ==
    /\ t \in DOMAIN transacciones
    /\ UNCHANGED << clientes, req >>
    /\ LET errs == AbonoForm_metodo_errors(metodo)
                       \cup AbonoForm_errors(transacciones[t], t, abonos, v)
       IN
       IF errs = {}
       THEN /\ HayCupo(abonos)
            /\ Abono_save(abonos (+) Uno(Abono(t, v)), t, now)
            /\ last' = [MkLast("abono_create", t, 0, v, {})
                            EXCEPT !.metodo = metodo, !.notas = notas]
       ELSE /\ UNCHANGED << transacciones, abonos >>
            /\ last' = [MkLast("abono_create", t, 0, v, errs)
                            EXCEPT !.metodo = metodo, !.notas = notas]

\* Transaccion.recomputar_pagado(persist=True) on the stored row of t;
\* previo tells that the request before was the same call
Recomputar(t, now) ==
    /\ t \in DOMAIN transacciones
    /\ transacciones' = [transacciones EXCEPT
           ![t] = recomputar_pagado(transacciones[t], t, abonos, now)]
    /\ last' = MkLast("recomputar", t,
                      IF last.op = "recomputar" /\ last.tx = t THEN 1 ELSE 0, 0, {})
    /\ UNCHANGED << clientes, abonos, req >>

\* AbonoUpdateView.post, on the payment row a
AbonoUpdate(a, v, now) ==
    /\ BagIn(a, abonos)
    /\ UNCHANGED << clientes, req >>
    /\ LET t == a.transaccion
           errs == AbonoForm_errors(transacciones[t], t, abonos, v)
       IN
       IF errs = {}
       THEN /\ Abono_save((abonos (-) Uno(a)) (+) Uno(Abono(t, v)), t, now)
            /\ last' = MkLast("abono_update", t, a.valor, v, {})
       ELSE /\ UNCHANGED << transacciones, abonos >>
            /\ last' = MkLast("abono_update", t, a.valor, v, errs)

\* mutant: the payment deleted without the recompute of the paid state
AbonoDelete_sin_recomputar(a, now) ==
    /\ BagIn(a, abonos)
    /\ UNCHANGED << clientes, req, transacciones >>
    /\ abonos' = abonos (-) Uno(a)
    /\ last' = MkLast("abono_delete", a.transaccion, 0, a.valor, {})

\* abono_delete, Abono.delete, on the payment row a
AbonoDelete(a, now) ==
    /\ BagIn(a, abonos)
    /\ UNCHANGED << clientes, req >>
    /\ LET t == a.transaccion IN
       /\ abonos' = abonos (-) Uno(a)
       /\ transacciones' = [transacciones EXCEPT
              ![t] = recomputar_pagado(transacciones[t], t, abonos', now)]
       /\ last' = MkLast("abono_delete", t, 0, a.valor, {})

\* ---- clients --------------------------------------------------------------
\* ClienteForm: nombre is required; telefono may be blank and nothing compares
\* it with the telefono of the other clients
ClienteForm_errors(nombre, telefono) ==
    IF nombre = "" THEN {"nombre"} ELSE {}

\* ClienteCreateView
ClienteCreate(ids, nombre, telefono) ==
    LET errs == ClienteForm_errors(nombre, telefono) IN
    /\ UNCHANGED << transacciones, abonos, req >>
    /\ IF errs = {}
       THEN /\ DOMAIN clientes # ids
            /\ LET c == NewPk(DOMAIN clientes, ids) IN
               /\ clientes' = Put(clientes, c, [nombre |-> nombre, telefono |-> telefono])
               /\ last' = [MkLast("cliente_create", 0, 0, 0, {}) EXCEPT !.cliente = c]
       ELSE /\ UNCHANGED clientes
            /\ last' = MkLast("cliente_create", 0, 0, 0, errs)

\* ClienteUpdateView
ClienteUpdate(c, nombre, telefono) ==
    LET errs == ClienteForm_errors(nombre, telefono) IN
    /\ c \in DOMAIN clientes
    /\ UNCHANGED << transacciones, abonos, req >>
    /\ clientes' = IF errs = {}
                   THEN [clientes EXCEPT ![c] = [nombre |-> nombre, telefono |-> telefono]]
                   ELSE clientes
    /\ last' = [MkLast("cliente_update", 0, 0, 0, errs) EXCEPT !.cliente = c]

\* Cliente.delete (the delete of ClienteAdmin): Transaccion.cliente is
\* on_delete=CASCADE, and so is Abono.transaccion
ClienteDelete(c) ==
    /\ c \in DOMAIN clientes
    /\ LET T == TransaccionesDe(transacciones, c) IN
       /\ clientes' = Drop(clientes, {c})
       /\ transacciones' = Drop(transacciones, T)
       /\ abonos' = Drop(abonos, { a \in BagToSet(abonos) : a.transaccion \in T })
    /\ last' = [MkLast("cliente_delete", 0, 0, 0, {}) EXCEPT !.cliente = c]
    /\ UNCHANGED req

\* ---- a payment request served step by step ------------------------------
\* AbonoCreateView.dispatch: self.tx = get_object_or_404(Transaccion, ...)
ReqDispatch(p, t, v) ==
    /\ req[p].pc = "idle"
    /\ t \in DOMAIN transacciones
    /\ req' = [req EXCEPT ![p] = [pc |-> "fetched", tx |-> t, valor |-> v,
                                  mem |-> transacciones[t]]]
    /\ UNCHANGED << clientes, transacciones, abonos, last >>

\* form.is_valid(): AbonoForm.clean and Abono.clean read the balance
ReqValidate(p) ==
    /\ req[p].pc = "fetched"
    /\ LET t == req[p].tx
           v == req[p].valor
           errs == AbonoForm_errors(req[p].mem, t, abonos, v)
       IN
       IF errs = {}
       THEN /\ req' = [req EXCEPT ![p].pc = "valid"]
            /\ UNCHANGED last
       ELSE /\ req' = [req EXCEPT ![p] = Idle]
            /\ last' = MkLast("abono_create", t, 0, v, errs)
    /\ UNCHANGED << clientes, transacciones, abonos >>

\* Abono.save: super().save() inserts the row
ReqInsert(p) ==
    /\ req[p].pc = "valid"
    /\ HayCupo(abonos)
    /\ abonos' = abonos (+) Uno(Abono(req[p].tx, req[p].valor))
    /\ req' = [req EXCEPT ![p].pc = "saved"]
    /\ UNCHANGED << clientes, transacciones, last >>

\* Abono.save: self.transaccion.recomputar_pagado(persist=True)
ReqRecompute(p, now) ==
    /\ req[p].pc = "saved"
    /\ LET t == req[p].tx
           mem == recomputar_pagado(req[p].mem, t, abonos, now)
       IN
       /\ transacciones' = [transacciones EXCEPT ![t] = save_pagado(transacciones[t], mem)]
       /\ last' = MkLast("abono_create", t, 0, req[p].valor, {})
    /\ req' = [req EXCEPT ![p] = Idle]
    /\ UNCHANGED << clientes, abonos >>

\* the client of the specifications that keep one client
Nombre == "Ana"
UnCliente == {1}

Next ==
    \/ ClienteCreate(UnCliente, Nombre, "")
    \/ \E pagado \in BOOLEAN, rows \in FormsetsIn :
           TransaccionCreate(TxIds, 1, ACCESORIOS, SinCampania, pagado, rows)
    \/ \E t \in TxIds, pagado \in BOOLEAN, rows \in FormsetsIn :
           TransaccionUpdate(t, ACCESORIOS, SinCampania, pagado, rows)
    \/ \E t \in TxIds : TransaccionMarcarPagado(t)
    \/ \E t \in TxIds : TransaccionDelete(t)
    \/ \E t \in TxIds, v \in ValoresIn, now \in Times : AbonoCreate(t, v, TRANSFER, "", now)
    \/ \E a \in BagToSet(abonos), v \in ValoresIn, now \in Times : AbonoUpdate(a, v, now)
    \/ \E a \in BagToSet(abonos), now \in Times : AbonoDelete(a, now)

\* one transaction and its payments, every request served in one piece
Spec == Init /\ [][Next]_vars

\* the formsets of the specification of several transactions: one complete row
FormsetsVarias ==
    { << Fila(Producto, Some(50), Some(2), d, FALSE) >> : d \in {None, Some(10)} }

ValoresVarias == {0, 50, 100}

NextVarias ==
    \/ ClienteCreate(UnCliente, Nombre, "")
    \/ \E t \in TxIdsVarias : TransaccionDelete(t)
    \/ \E rows \in FormsetsVarias :
           TransaccionCreate(TxIdsVarias, 1, ACCESORIOS, SinCampania, FALSE, rows)
    \/ \E t \in TxIdsVarias : TransaccionMarcarPagado(t)
    \/ \E t \in TxIdsVarias, v \in ValoresVarias, now \in Times : AbonoCreate(t, v, TRANSFER, "", now)
    \/ \E a \in BagToSet(abonos), now \in Times : AbonoDelete(a, now)

\* several transactions side by side
SpecVarias == Init /\ [][NextVarias]_vars

NextRace ==
    \/ ClienteCreate(UnCliente, Nombre, "")
    \/ \E rows \in FormsetsIn : TransaccionCreate(TxIds, 1, ACCESORIOS, SinCampania, FALSE, rows)
    \/ \E p \in Procs, t \in TxIds, v \in ValoresIn : ReqDispatch(p, t, v)
    \/ \E p \in Procs : ReqValidate(p)
    \/ \E p \in Procs : ReqInsert(p)
    \/ \E p \in Procs, now \in Times : ReqRecompute(p, now)

\* two worker processes serving payment requests against one database
SpecRace == Init /\ [][NextRace]_vars

\* ---- clients and their transactions --------------------------------------
\* rows of the Cliente table
MaxClientes == 2
ClienteIds == 1..MaxClientes
NombresIn == {"", Nombre}
TelefonosIn == {"", "3001234567"}
FormsetCien == << Fila(Producto, Some(50), Some(2), None, FALSE) >>
ValoresClientes == {50, 100}

NextClientes ==
    \/ \E n \in NombresIn, tel \in TelefonosIn : ClienteCreate(ClienteIds, n, tel)
    \/ \E c \in ClienteIds, n \in NombresIn, tel \in TelefonosIn : ClienteUpdate(c, n, tel)
    \/ \E c \in ClienteIds : ClienteDelete(c)
    \/ \E c \in ClienteIds :
           TransaccionCreate(TxIdsVarias, c, ACCESORIOS, SinCampania, FALSE, FormsetCien)
    \/ \E t \in TxIdsVarias : TransaccionMarcarPagado(t)
    \/ \E t \in TxIdsVarias, v \in ValoresClientes, now \in Times :
           AbonoCreate(t, v, TRANSFER, "", now)

\* the clients, their transactions and the payments of these
SpecClientes == Init /\ [][NextClientes]_vars

\* ---- the ledger of one transaction, with the recompute called on its own --
TimesLibro == 1..(MaxClock + 1)
\* the line totals 100, 90 and 0
FormsetsLibro ==
    { << Fila(Producto, Some(p), Some(2), d, FALSE) >> :
         p \in {0, 50}, d \in {None, Some(10)} }
ValoresLibro == {0 - 10, 0, 40, 100}

NextLibro ==
    \/ ClienteCreate(UnCliente, Nombre, "")
    \/ \E pagado \in BOOLEAN, rows \in FormsetsLibro :
           TransaccionCreate(TxIds, 1, ACCESORIOS, SinCampania, pagado, rows)
    \/ \E t \in TxIds : TransaccionMarcarPagado(t)
    \/ \E t \in TxIds, v \in ValoresLibro, now \in TimesLibro :
           AbonoCreate(t, v, TRANSFER, "", now)
    \/ \E a \in BagToSet(abonos), now \in TimesLibro : AbonoDelete(a, now)
    \/ \E t \in TxIds, now \in TimesLibro : Recomputar(t, now)

SpecLibro == Init /\ [][NextLibro]_vars

\* ---- payments by every method ----------------------------------------------
\* the methods a request may post: the choices of the form and one more code
MetodosIn == METODOS \cup {"CRU"}
NotasIn == {"", "cruce de cuentas"}
ValoresMetodos == {0, 40, 100}

NextMetodos ==
    \/ ClienteCreate(UnCliente, Nombre, "")
    \/ \E rows \in FormsetsVarias :
           TransaccionCreate(TxIds, 1, ACCESORIOS, SinCampania, FALSE, rows)
    \/ \E t \in TxIds, v \in ValoresMetodos, m \in MetodosIn, n \in NotasIn,
             now \in Times : AbonoCreate(t, v, m, n, now)
    \/ \E a \in BagToSet(abonos), now \in Times : AbonoDelete(a, now)

SpecMetodos == Init /\ [][NextMetodos]_vars

\* ---- line items ------------------------------------------------------------
PreciosIn == {0 - 10, 0, 10, 50}
CantidadesIn == {0 - 1, 0, 1, 2}
DescuentosIn == {None, Some(10), Some(20), Some(30), Some(50)}
FormsetsItems ==
    { << Fila(Producto, Some(p), Some(q), d, FALSE) >> :
         p \in PreciosIn, q \in CantidadesIn, d \in DescuentosIn }

NextItems ==
    \/ ClienteCreate(UnCliente, Nombre, "")
    \/ \E rows \in FormsetsItems :
           TransaccionCreate(TxIds, 1, ACCESORIOS, SinCampania, FALSE, rows)
    \/ \E t \in TxIds, rows \in FormsetsItems :
           TransaccionUpdate(t, ACCESORIOS, SinCampania, FALSE, rows)
    \/ \E t \in TxIds : TransaccionDelete(t)

\* transactions with one line item of any price, quantity and discount
SpecItems == Init /\ [][NextItems]_vars

\* ---- statement of account -------------------------------------------------
\* TIPO_MAP.get(r): the code of a type name, None for any other string
TIPO_MAP_get(r) ==
    IF r = "natura" THEN Some(NATURA)
    ELSE IF r = "accesorios" THEN Some(ACCESORIOS)
    ELSE IF r = "otros" THEN Some(OTROS)
    ELSE None

\* str.lower() and str.strip() on the names a request carries
lower(r) == IF r = "Natura" THEN "natura" ELSE r
strip_nombre(r) == IF r = " otros" THEN "otros" ELSE IF r = " " THEN "" ELSE r

\* a value of the GET parameter tipos is the sequence of its parts between
\* commas; a value of several parts holds a comma and is no key of TIPO_MAP
ConComa == "con,coma"
entero(valor_get) == IF Len(valor_get) = 1 THEN valor_get[1] ELSE ConComa

\* [x.strip() for x in raw_list[0].split(",") if x.strip()]
RECURSIVE split_strip(_)
split_strip(parts) ==
    IF parts = << >> THEN << >>
    ELSE (IF strip_nombre(Head(parts)) # "" THEN << strip_nombre(Head(parts)) >> ELSE << >>)
             \o split_strip(Tail(parts))

Rango(f) == { f[i] : i \in DOMAIN f }

\* the loop of _parse_tipos: codes in order of first appearance
RECURSIVE parse_tipos_codes(_, _)
parse_tipos_codes(raw_list, codes) ==
    IF raw_list = << >> THEN codes
    ELSE LET code == TIPO_MAP_get(lower(Head(raw_list))) IN
         parse_tipos_codes(Tail(raw_list),
             IF code # None /\ code[1] \notin Rango(codes)
             THEN Append(codes, code[1]) ELSE codes)

\* _parse_tipos; None (no selection) is the empty sequence
parse_tipos(raw) ==
    LET raw_list == IF Len(raw) = 1 /\ Len(raw[1]) > 1
                    THEN split_strip(raw[1])
                    ELSE [i \in DOMAIN raw |-> entero(raw[i])]
    IN  parse_tipos_codes(raw_list, << >>)

RECURSIVE base_total(_)
base_total(its) ==
    IF its = << >> THEN 0 ELSE base_linea(Head(its)) + base_total(Tail(its))

RECURSIVE desc_total(_)
desc_total(its) ==
    IF its = << >> THEN 0 ELSE desc_linea(Head(its)) + desc_total(Tail(its))

\* what the loop adds for transaction t: base, discount, paid-in and balance
cifras(t) ==
    [base |-> base_total(transacciones[t].items),
     desc |-> desc_total(transacciones[t].items),
     abonado |-> total_abonado(t),
     saldo |-> saldo_actual(t)]

zero == [base |-> 0, desc |-> 0, abonado |-> 0, saldo |-> 0]

mas(x, y) ==
    [base |-> x.base + y.base, desc |-> x.desc + y.desc,
     abonado |-> x.abonado + y.abonado, saldo |-> x.saldo + y.saldo]

\* the accumulation of the loop over the transactions T
RECURSIVE acumula(_)
acumula(T) ==
    IF T = {} THEN zero
    ELSE LET t == CHOOSE x \in T : TRUE IN mas(cifras(t), acumula(T \ {t}))

TODOS == << NATURA, ACCESORIOS, OTROS >>

\* a queryset that keeps the paid filter and forgets the types selected
estado_cuenta_qs_sin_tipo(c, tipos_codes) ==
    { t \in DOMAIN transacciones :
        transacciones[t].cliente = c /\ ~transacciones[t].pagado }

\* estado_cuenta: qs
estado_cuenta_qs(c, tipos_codes) ==
    { t \in DOMAIN transacciones :
        /\ transacciones[t].cliente = c
        /\ ~transacciones[t].pagado
        /\ tipos_codes # << >> => transacciones[t].tipo \in Rango(tipos_codes) }

\* estado_cuenta: the selection page without the GET parameter ready, else
\* the groups, their subtotals and the totals
estado_cuenta(c, raw, ready) ==
    LET tipos_codes == parse_tipos(raw) IN
    IF ~ready
    THEN [page |-> "estado_cuenta_select", tipos_sel |-> Rango(tipos_codes)]
    ELSE LET qs == estado_cuenta_qs(c, tipos_codes)
             codes_order == IF tipos_codes # << >> THEN tipos_codes ELSE TODOS
         IN  [page |-> "estado_cuenta",
              codes_order |-> codes_order,
              grouped |-> [code \in Rango(codes_order) |->
                              { t \in qs : transacciones[t].tipo = code }],
              subtotals |-> [code \in Rango(codes_order) |->
                              acumula({ t \in qs : transacciones[t].tipo = code })],
              totals |-> acumula(qs)]

\* _build_estado_ctx
build_estado_ctx(c, tipos_codes) ==
    LET qs == { t \in DOMAIN transacciones :
                  /\ transacciones[t].cliente = c
                  /\ transacciones[t].pagado = FALSE
                  /\ tipos_codes # << >> => transacciones[t].tipo \in Rango(tipos_codes) }
        codes_order == IF tipos_codes # << >> THEN tipos_codes ELSE TODOS
    IN  [codes_order |-> codes_order,
         grouped |-> [code \in Rango(codes_order) |->
                         { t \in qs : transacciones[t].tipo = code }],
         subtotals |-> [code \in Rango(codes_order) |->
                         acumula({ t \in qs : transacciones[t].tipo = code })],
         totals |-> acumula(qs)]

\* estado_cuenta_pdf: the context handed to the PDF template
estado_cuenta_pdf(c, raw) == build_estado_ctx(c, parse_tipos(raw))

TiposIn == {NATURA, ACCESORIOS, OTROS}
ClientesEstado == {1, 2}
CampaniaEstado == << "2", "5" >>
FormsetDescuento == << Fila(Producto, Some(50), Some(2), Some(10), FALSE) >>
ValoresEstado == {40}
TiposRawIn ==
    { << >>,
      << << "natura" >> >>,
      << << "Natura" >>, << "natura" >> >>,
      << << "accesorios", " otros" >> >>,
      << << "xyz" >> >>,
      << << "otros" >>, << "natura", "accesorios" >> >>,
      << << " otros" >> >> }

NextEstado ==
    \/ ClienteCreate(ClientesEstado, Nombre, "")
    \/ \E c \in ClientesEstado, tipo \in TiposIn, pagado \in BOOLEAN :
           TransaccionCreate(TxIdsVarias, c, tipo, CampaniaEstado, pagado, FormsetDescuento)
    \/ \E t \in TxIdsVarias, v \in ValoresEstado, now \in Times :
           AbonoCreate(t, v, TRANSFER, "", now)

\* two clients and their transactions of every type, as the statement of
\* account reads them
SpecEstado == Init /\ [][NextEstado]_vars

\* ---- types and campaigns ------------------------------------------------------
CampaniasIn == { << >>, << " " >>, << "2", "5" >>, << " ", "7" >> }

NextTipos ==
    \/ ClienteCreate(UnCliente, Nombre, "")
    \/ \E tipo \in TiposIn, c \in CampaniasIn, pagado \in BOOLEAN,
             rows \in FormsetsVarias :
           TransaccionCreate(TxIds, 1, tipo, c, pagado, rows)
    \/ \E t \in TxIds, tipo \in TiposIn, c \in CampaniasIn, rows \in FormsetsVarias :
           TransaccionUpdate(t, tipo, c, FALSE, rows)
    \/ \E t \in TxIds : TransaccionDelete(t)

\* transactions of every type, with and without a campaign
SpecTipos == Init /\ [][NextTipos]_vars

\* ---- properties -----------------------------------------------------------
Pagado(t) == transacciones[t].pagado
Existe(t) == t \in DOMAIN transacciones
Aceptado(op) == last.op = op /\ last.err = {}
SinCambios == clientes' = clientes /\ transacciones' = transacciones /\ abonos' = abonos

\* C1: a payment whose value exceeds the outstanding balance of its
\* transaction by more than epsilon is rejected with the overpayment error,
\* and nothing is written.
C1_OverpaymentRejected ==
    [][ \A t \in DOMAIN transacciones :
          (last'.op = "abono_create" /\ last'.tx = t
              /\ GtEps(last'.valor - saldo_actual(t)))
          => ("overpayment" \in last'.err /\ SinCambios) ]_vars

\* C1 witness: 100001-style overpayment, 101 on a total of 100 with no payments
C1_Witness ==
    /\ last.op = "abono_create" /\ last.valor = 101 /\ "overpayment" \in last.err
    /\ Existe(last.tx) /\ valor(transacciones[last.tx]) = 100
    /\ total_abonado(last.tx) = 0

\* C2: after a payment is recorded, a transaction whose payments meet its
\* payable total (total_abonado + epsilon >= valor) is paid; and a payment
\* equal to the whole positive balance of an unpaid transaction is accepted,
\* sets pagado and leaves a balance of 0.
C2_PaidWhenCovered ==
    [][ \A t \in DOMAIN transacciones :
          (last'.op = "abono_create" /\ last'.tx = t) =>
            /\ (last'.err = {} /\ PlusEpsGeq(total_abonado(t)', valor(transacciones'[t])))
                  => transacciones'[t].pagado
            /\ (~Pagado(t) /\ last'.valor = saldo_actual(t) /\ last'.valor > 0)
                  => /\ last'.err = {}
                     /\ transacciones'[t].pagado
                     /\ saldo_actual(t)' = 0 ]_vars

C2_Witness ==
    /\ Aceptado("abono_create") /\ last.valor = 100
    /\ Existe(last.tx) /\ valor(transacciones[last.tx]) = 100
    /\ Pagado(last.tx) /\ saldo_actual(last.tx) = 0
    /\ transacciones[last.tx].fecha_pago # None

\* C3: an accepted payment of v on an unpaid transaction of balance s, with
\* v < s, leaves it unpaid with a balance of exactly s - v.
C3_PartialPayment ==
    [][ \A t \in DOMAIN transacciones :
          (last'.op = "abono_create" /\ last'.tx = t /\ last'.err = {}
              /\ ~Pagado(t) /\ last'.valor < saldo_actual(t))
          => /\ ~transacciones'[t].pagado
             /\ saldo_actual(t)' = saldo_actual(t) - last'.valor ]_vars

\* C3 witness: 40 paid on a total of 90 leaves 50 and the transaction unpaid
C3_Witness ==
    /\ Aceptado("abono_create") /\ last.valor = 40
    /\ Existe(last.tx) /\ valor(transacciones[last.tx]) = 90
    /\ saldo_actual(last.tx) = 50 /\ ~Pagado(last.tx)

\* C4: every paid transaction has an outstanding balance of 0.
C4_PaidHasNoBalance ==
    \A t \in DOMAIN transacciones : Pagado(t) => saldo_actual(t) = 0

\* C5: the payments of a transaction never sum to more than its payable
\* total plus epsilon, whatever the interleaving of two payment requests.
C5_NoOverpaymentUnderRace ==
    \A t \in DOMAIN transacciones :
        ~GtEps(total_abonado(t) - valor(transacciones[t]))

\* C6: after a payment is deleted, a transaction whose remaining payments are
\* below its payable total is unpaid, has no paid date and has a balance of
\* the total minus the remaining payments.
C6_DeleteReverts ==
    (last.op = "abono_delete" /\ Existe(last.tx)
        /\ ~PlusEpsGeq(total_abonado(last.tx), valor(transacciones[last.tx])))
    => /\ ~Pagado(last.tx)
       /\ transacciones[last.tx].fecha_pago = None
       /\ saldo_actual(last.tx) = valor(transacciones[last.tx]) - total_abonado(last.tx)

\* C6 witness: the 50 deleted from the paid transaction of 90 (40 + 50)
C6_Witness ==
    /\ last.op = "abono_delete" /\ last.valor = 50
    /\ Existe(last.tx) /\ valor(transacciones[last.tx]) = 90
    /\ total_abonado(last.tx) = 40
    /\ ~Pagado(last.tx) /\ saldo_actual(last.tx) = 50

\* C7: a create, an item update or a payment that fails validation writes
\* nothing: no transaction, item or payment row and no paid flag or date
\* changes.
C7_ValidationBeforeWrite ==
    [][ (last'.op \in {"tx_create", "tx_update", "abono_create"} /\ last'.err # {})
        => SinCambios ]_vars

\* C7 witness: a rejected create (no complete row) beside stored data
C7_Witness ==
    /\ last.op = "tx_create" /\ "items" \in last.err
    /\ DOMAIN transacciones # {} /\ abonos # EmptyBag

\* C8: recording or deleting a payment of transaction T changes no other
\* transaction: row, payments and balance of every other one stay as they were.
C8_OtherTransactionsUntouched ==
    [][ \A u \in DOMAIN transacciones :
          (last'.op \in {"abono_create", "abono_delete"} /\ last'.tx # u)
          => /\ u \in DOMAIN transacciones'
             /\ transacciones'[u] = transacciones[u]
             /\ \A a \in BagToSet(abonos) \cup BagToSet(abonos') :
                    a.transaccion = u => CopiesIn(a, abonos') = CopiesIn(a, abonos)
             /\ saldo_actual(u)' = saldo_actual(u) ]_vars

\* C8 witness: a payment recorded on one transaction while another one has
\* a payment of its own
C8_Witness ==
    /\ Aceptado("abono_create")
    /\ \E u \in DOMAIN transacciones :
          u # last.tx /\ total_abonado(u) > 0 /\ saldo_actual(u) > 0

\* C9: an edit of a paid transaction is rejected and changes nothing.
C9_PaidNotEditable ==
    [][ \A t \in DOMAIN transacciones :
          (last'.op = "tx_update" /\ last'.tx = t /\ Pagado(t))
          => ("pagada" \in last'.err /\ SinCambios) ]_vars

C9_Witness ==
    /\ last.op = "tx_update" /\ "pagada" \in last.err
    /\ Existe(last.tx) /\ Pagado(last.tx)

C11_MarkPaidStamps ==
    [][ \A t \in DOMAIN transacciones :
          (last'.op = "tx_pagada" /\ last'.tx = t) =>
            /\ transacciones'[t].pagado
            /\ transacciones'[t].fecha_pago # None
            /\ transacciones[t].fecha_pago # None
                  => transacciones'[t].fecha_pago = transacciones[t].fecha_pago ]_vars

RECURSIVE SumaSaldos(_)
\* the sum of saldo_actual over the transactions T with saldo_actual > 0, a
\* paid transaction counting 0
SumaSaldos(T) ==
    IF T = {} THEN 0
    ELSE LET t == CHOOSE x \in T : TRUE
             s == IF Pagado(t) THEN 0 ELSE saldo_actual(t)
         IN  (IF s > 0 THEN s ELSE 0) + SumaSaldos(T \ {t})

\* C12: the outstanding balance of a client is the sum of saldo_actual over
\* its transactions with saldo_actual > 0, a paid transaction contributing 0.
C12_ClientBalance ==
    \A c \in DOMAIN clientes :
        saldo_pendiente(c) = SumaSaldos(TransaccionesDe(transacciones, c))

\* C13: recomputar_pagado called a second time, with nothing changed in
\* between, leaves the paid flag, the paid date and saldo_actual as the first
\* call left them.
C13_RecomputeIdempotent ==
    [][ \A t \in DOMAIN transacciones :
          (last.op = "recomputar" /\ last.tx = t
              /\ last'.op = "recomputar" /\ last'.tx = t /\ last'.previo = 1)
          => /\ transacciones'[t].pagado = transacciones[t].pagado
             /\ transacciones'[t].fecha_pago = transacciones[t].fecha_pago
             /\ saldo_actual(t)' = saldo_actual(t) ]_vars

\* C13 witness: the second of two calls in a row, on a transaction the first
\* call found covered and left paid with its date
C13_Witness ==
    /\ last.op = "recomputar" /\ last.previo = 1 /\ Existe(last.tx)
    /\ Pagado(last.tx) /\ transacciones[last.tx].fecha_pago # None
    /\ total_abonado(last.tx) = 100 /\ saldo_actual(last.tx) = 0

\* C14: a payment of value <= 0 is rejected and writes nothing, and every
\* payment in the table has a value > 0.
C14_NonPositiveRejected ==
    [][ /\ (last'.op = "abono_create" /\ last'.valor <= 0)
              => (last'.err # {} /\ SinCambios)
        /\ \A a \in BagToSet(abonos') : a.valor > 0 ]_vars

\* C14 witness: a payment of 0 rejected on a transaction with a balance and
\* a payment of its own
C14_Witness ==
    /\ last.op = "abono_create" /\ last.valor = 0 /\ "non_positive" \in last.err
    /\ Existe(last.tx) /\ saldo_actual(last.tx) > 0 /\ total_abonado(last.tx) > 0

\* the code a request posts for the method account-offset
CruceDeCuentas == "CRU"

\* C15: a payment by account-offset is rejected when its description is
\* blank and, when it is not, accepted if the value is positive and within
\* the balance.
C15_OffsetNeedsDescription ==
    [][ (last'.op = "abono_create" /\ last'.metodo = CruceDeCuentas
            /\ last'.tx \in DOMAIN transacciones) =>
          /\ last'.notas = "" => last'.err # {}
          /\ (last'.notas # "" /\ last'.valor > 0
                 /\ ~GtEps(last'.valor - saldo_actual(last'.tx)))
                => last'.err = {} ]_vars

\* C16: the line total of an item of price p >= 0, quantity q >= 0 and
\* discount d in {None, 10, 20, 30} is p * q * (1 - d/100), the base less the
\* discount of the statement of account, and is never negative.
C16_LineTotal ==
    \A t \in DOMAIN transacciones : \A i \in DOMAIN transacciones[t].items :
        LET it == transacciones[t].items[i] IN
        (it.precio_unitario >= 0 /\ it.cantidad >= 0
            /\ it.descuento \in {None, Some(10), Some(20), Some(30)})
        => /\ 100 * line_total(it)
                 = it.precio_unitario * it.cantidad * (100 - OrZero(it.descuento))
           /\ line_total(it) = base_linea(it) - desc_linea(it)
           /\ line_total(it) >= 0

\* C16 witness: 50 x 2 at 30% is 70
C16_Witness ==
    \E t \in DOMAIN transacciones : \E i \in DOMAIN transacciones[t].items :
        LET it == transacciones[t].items[i] IN
        /\ it.precio_unitario = 50 /\ it.cantidad = 2 /\ it.descuento = Some(30)
        /\ line_total(it) = 70 /\ valor(transacciones[t]) = 70

\* C17: a create or an update is accepted only with at least one complete
\* row, so every transaction in the table has at least one line item.
C17_AtLeastOneItem ==
    [][ /\ (last'.op \in {"tx_create", "tx_update"} /\ last'.err = {})
              => /\ last'.tx \in DOMAIN transacciones'
                 /\ Len(transacciones'[last'.tx].items) >= 1
        /\ (last'.op \in {"tx_create", "tx_update"} /\ last'.err # {})
              => transacciones' = transacciones
        /\ \A t \in DOMAIN transacciones' : Len(transacciones'[t].items) >= 1 ]_vars

\* C17 witness: an update that leaves no complete row, rejected, the
\* transaction keeping its item
C17_Witness ==
    /\ last.op = "tx_update" /\ last.err = {"items"}
    /\ Existe(last.tx) /\ Len(transacciones[last.tx].items) = 1

\* C18: the delete of a client that has transactions is rejected and
\* changes nothing.
C18_ClientDeleteProtected ==
    [][ \A c \in DOMAIN clientes :
          (last'.op = "cliente_delete" /\ last'.cliente = c
              /\ TransaccionesDe(transacciones, c) # {})
          => (last'.err # {} /\ SinCambios) ]_vars

\* C19: the delete of a transaction removes its row (with its line items)
\* and its payments, no payment is left without its transaction, and every
\* other transaction keeps its row and its payments; the clients stay.
C19_DeleteCascades ==
    [][ \A t \in DOMAIN transacciones :
          (last'.op = "tx_delete" /\ last'.tx = t) =>
            /\ t \notin DOMAIN transacciones'
            /\ \A a \in BagToSet(abonos') : a.transaccion \in DOMAIN transacciones'
            /\ \A u \in DOMAIN transacciones \ {t} :
                  /\ u \in DOMAIN transacciones'
                  /\ transacciones'[u] = transacciones[u]
                  /\ \A a \in BagToSet(abonos) \cup BagToSet(abonos') :
                         a.transaccion = u => CopiesIn(a, abonos') = CopiesIn(a, abonos)
            /\ clientes' = clientes ]_vars

\* C19 witness: a transaction deleted with its payments beside another one
\* that keeps its own
C19_Witness ==
    /\ last.op = "tx_delete" /\ last.valor > 0 /\ ~Existe(last.tx)
    /\ \E u \in DOMAIN transacciones : total_abonado(u) > 0
    /\ \A a \in BagToSet(abonos) : a.transaccion # last.tx

\* C20: no two clients have the same non-empty telefono.
C20_PhoneUnique ==
    \A c, d \in DOMAIN clientes :
        (c # d /\ clientes[c].telefono # "")
        => clientes[c].telefono # clientes[d].telefono

\* ---- C21 ------------------------------------------------------------------
DescuentosValidos == {None, Some(10), Some(20), Some(30)}
FilaInvalida(r) ==
    \/ (~IsNone(r.precio_unitario) /\ r.precio_unitario[1] < 0)
    \/ (~IsNone(r.cantidad) /\ r.cantidad[1] < 0)
    \/ r.descuento \notin DescuentosValidos

\* C21: a formset with a line item of negative price, negative quantity or a
\* discount other than absent, 10, 20 or 30 is rejected, and every line item
\* stored has price >= 0, quantity >= 0 and a discount that is absent, 10, 20
\* or 30
C21_ItemsValidated ==
    /\ \A rows \in FormsetsItems :
           (\E i \in DOMAIN rows : FilaInvalida(rows[i]))
               => forms_errors(ACCESORIOS, SinCampania, rows) = {"items"}
    /\ \A t \in DOMAIN transacciones :
           \A i \in DOMAIN transacciones[t].items :
               LET it == transacciones[t].items[i] IN
               /\ it.precio_unitario >= 0
               /\ it.cantidad >= 0
               /\ it.descuento \in DescuentosValidos

\* a transaction with a stored line item at 30% whose edit was rejected for
\* its items
C21_Witness ==
    /\ last.op = "tx_update" /\ last.err = {"items"}
    /\ \E t \in DOMAIN transacciones :
           /\ Len(transacciones[t].items) = 1
           /\ transacciones[t].items[1].descuento = Some(30)
           /\ transacciones[t].items[1].precio_unitario = 50

\* ---- C22 ------------------------------------------------------------------
EsBlanco(c) == \A i \in DOMAIN c : c[i] = " "

\* C22: the transaction form is rejected on the campaign exactly when the type
\* is Natura and the campaign is empty or blank; every stored Natura
\* transaction carries a campaign, and other types are stored without one
C22_NaturaNeedsCampaign ==
    /\ \A tipo \in TiposIn, c \in CampaniasIn, rows \in FormsetsVarias :
           IF tipo = NATURA /\ EsBlanco(c)
           THEN forms_errors(tipo, c, rows) = {"campania"}
           ELSE forms_errors(tipo, c, rows) = {}
    /\ \A t \in DOMAIN transacciones :
           transacciones[t].tipo = NATURA => ~EsBlanco(transacciones[t].campania)

\* a transaction of another type stored without a campaign, whose change to
\* Natura was rejected for the campaign
C22_Witness ==
    /\ last.op = "tx_update" /\ last.err = {"campania"}
    /\ \E t \in DOMAIN transacciones :
           /\ last.tx = t
           /\ transacciones[t].tipo = OTROS
           /\ transacciones[t].campania = << >>

\* ---- C23 ------------------------------------------------------------------
\* C23: in every state the handlers reach, the payments of a transaction sum
\* to no more than its payable total plus epsilon
C23_PaymentsWithinTotal ==
    \A t \in DOMAIN transacciones :
        PlusEpsGeq(valor(transacciones[t]), total_abonado(t))

\* ---- C24 ------------------------------------------------------------------
\* C24: an accepted payment on a transaction that was paid, whether by its
\* payments or by the manual mark, leaves it paid with the paid date it had
C24_PaymentKeepsPaid ==
    [][ \A t \in DOMAIN transacciones :
          (last'.op = "abono_create" /\ last'.tx = t /\ last'.err = {} /\ Pagado(t))
            => /\ transacciones'[t].pagado
               /\ transacciones'[t].fecha_pago = transacciones[t].fecha_pago ]_vars

\* ---- C25 ------------------------------------------------------------------
\* C25: in every state a transaction has a paid date exactly when it is paid
C25_PaidDateIffPaid ==
    \A t \in DOMAIN transacciones :
        Pagado(t) <=> transacciones[t].fecha_pago # None

\* ---- C26 ------------------------------------------------------------------
\* C26: after an accepted update of the items of a transaction, the
\* transaction is paid exactly when its payments plus epsilon reach the new
\* payable total
C26_UpdateRecomputes ==
    [][ \A t \in DOMAIN transacciones :
          (last'.op = "tx_update" /\ last'.tx = t /\ last'.err = {})
            => (transacciones'[t].pagado
                  <=> PlusEpsGeq(total_abonado(t)', valor(transacciones'[t]))) ]_vars

\* ---- C27 ------------------------------------------------------------------
\* C27: the edit of a payment to the value v is accepted exactly when v > 0
\* and v is at most the payable total minus the other payments of the
\* transaction (plus epsilon); so the edit that keeps the value is accepted
C27_EditExcludesOwnValue ==
    [][ \A t \in DOMAIN transacciones :
          (last'.op = "abono_update" /\ last'.tx = t)
            => (last'.err = {}
                  <=> /\ last'.valor > 0
                      /\ ~GtEps(last'.valor
                                - (valor(transacciones[t])
                                   - (total_abonado(t) - last'.previo)))) ]_vars

\* ---- C28 ------------------------------------------------------------------
\* C28: in every state, Cliente.saldo_pendiente of a client equals the
\* total_pendiente of the client's detail page and the pending amount the
\* dashboard adds up for the client
C28_PendingAgree ==
    \A c \in DOMAIN clientes :
        /\ saldo_pendiente(c) = ClienteDetail_total_pendiente(c)
        /\ saldo_pendiente(c) = Dashboard_por_cliente(c)

RECURSIVE SumaSubtotales(_, _)
SumaSubtotales(subtotals, K) ==
    IF K = {} THEN zero
    ELSE LET k == CHOOSE x \in K : TRUE IN
         mas(subtotals[k], SumaSubtotales(subtotals, K \ {k}))

\* C30: the statement of account of a client lists exactly the client's
\* unpaid transactions whose type is among the types selected (all of them
\* when none is selected), each in exactly one group, the group of its type;
\* each total (base, discount, paid-in, balance) is the sum of the subtotals
\* of the groups; and the PDF context has the same groups and totals
C30_Statement ==
    \A c \in DOMAIN clientes, raw \in TiposRawIn :
        LET e == estado_cuenta(c, raw, TRUE)
            pdf == estado_cuenta_pdf(c, raw)
            sel == Rango(parse_tipos(raw))
            K == DOMAIN e.grouped
            lista == UNION { e.grouped[k] : k \in K }
        IN  /\ lista = { t \in DOMAIN transacciones :
                           /\ transacciones[t].cliente = c
                           /\ ~Pagado(t)
                           /\ (sel = {} \/ transacciones[t].tipo \in sel) }
            /\ \A t \in lista :
                   { k \in K : t \in e.grouped[k] } = { transacciones[t].tipo }
            /\ e.totals = SumaSubtotales(e.subtotals, K)
            /\ pdf.grouped = e.grouped
            /\ pdf.subtotals = e.subtotals
            /\ pdf.totals = e.totals

\* client 1 with an unpaid Natura transaction carrying a payment and an
\* unpaid transaction of another type: the statement for Natura lists the
\* first alone, the statement without a selection lists both
C30_Witness ==
    /\ DOMAIN clientes = {1, 2}
    /\ \E t, u \in DOMAIN transacciones :
           /\ transacciones[t].cliente = 1 /\ transacciones[t].tipo = NATURA
           /\ ~Pagado(t) /\ total_abonado(t) = 40
           /\ transacciones[u].cliente = 1 /\ transacciones[u].tipo = ACCESORIOS
           /\ ~Pagado(u)
           /\ estado_cuenta(1, << << "natura" >> >>, TRUE).grouped = (NATURA :> {t})
           /\ estado_cuenta(1, << << "natura" >> >>, TRUE).totals
                  = [base |-> 100, desc |-> 10, abonado |-> 40, saldo |-> 50]
           /\ estado_cuenta(1, << >>, TRUE).totals.saldo = 140
           /\ estado_cuenta(2, << >>, TRUE).totals = zero

====
